---- MODULE Spec2Model ----
\* Model of dssat_nasapower_extract.py: the NASA POWER fetcher
\* (get_daily_nasa_power_data), the DSSAT .WTH writer (save_wth_file) and the
\* orchestration (main).
\*
\* Conventions
\*   - a calendar date inside the program is its proleptic Gregorian ordinal
\*     (0001-01-01 = 1); a date argument is the number read from its 8 digits
\*     YYYYMMDD;
\*   - a numeric value of a daily observation is an integer count of tenths
\*     (253 = 25.3), NaN is the missing float;
\*   - a text is the sequence of its lines (the text split at "\n"), a line the
\*     sequence of its characters.
EXTENDS Integers, Sequences, FiniteSets, TLC

\* ---------------------------------------------------------------------------
\* Bounds of the model
\* ---------------------------------------------------------------------------
\* longest short period (end - start, in days) that a caller requests
MaxSpan == 1
\* how many leading days of a request the service leaves out when it does
MaxDropped == 1
\* how many times a caller writes the file in one run
MaxWrites == 2

\* ---------------------------------------------------------------------------
\* Values
\* ---------------------------------------------------------------------------
\* a float: NaN (missing) or a number of tenths
NaN == [nan |-> TRUE, tenths |-> 0]

Float(t) == [nan |-> FALSE, tenths |-> t]

\* a float statistic: NaN or the quotient (num/den) of tenths
NaNStat == [nan |-> TRUE, num |-> 0, den |-> 1]

Stat(n, d) == [nan |-> FALSE, num |-> n, den |-> d]

\* what a variable of main or a result of the fetcher holds
None == [kind |-> "None"]

Unbound == [kind |-> "Unbound"]

\* a frame: the labels of its index in their order, and the row of each
DataFrame(index, rows) == [kind |-> "DataFrame", index |-> index, rows |-> rows]

parameters == <<"T2M", "T2M_MAX", "T2M_MIN", "PRECTOTCORR", "ALLSKY_SFC_SW_DWN", "RH2M", "WS2M">>

ParameterSet == {parameters[i] : i \in 1..Len(parameters)}

\* ---------------------------------------------------------------------------
\* Calendar: datetime.strptime, subtraction, pd.date_range, timetuple, strftime
\* ---------------------------------------------------------------------------
IsLeap(y) == (y % 4 = 0) /\ ((y % 100 # 0) \/ (y % 400 = 0))

DaysInMonth(y, m) ==
    IF m = 2 THEN (IF IsLeap(y) THEN 29 ELSE 28)
    ELSE IF m \in {4, 6, 9, 11} THEN 30 ELSE 31

RECURSIVE DaysBeforeMonth(_, _)
DaysBeforeMonth(y, m) ==
    IF m = 1 THEN 0 ELSE DaysBeforeMonth(y, m - 1) + DaysInMonth(y, m - 1)

DaysBeforeYear(y) ==
    (y - 1) * 365 + ((y - 1) \div 4) - ((y - 1) \div 100) + ((y - 1) \div 400)

DaysInYear(y) == IF IsLeap(y) THEN 366 ELSE 365

\* datetime.strptime(s, '%Y%m%d') for a valid 8-digit date
strptime(s) ==
    [year |-> s \div 10000, month |-> (s \div 100) % 100, day |-> s % 100]

toordinal(dt) == DaysBeforeYear(dt.year) + DaysBeforeMonth(dt.year, dt.month) + dt.day

\* the year of an ordinal (the 400/100/4/1-year cycles of the calendar)
YearOf(n) ==
    LET n0 == n - 1
        n400 == n0 \div 146097
        r400 == n0 % 146097
        n100 == r400 \div 36524
        r100 == r400 % 36524
        n4 == r100 \div 1461
        r4 == r100 % 1461
        n1 == r4 \div 365
        y == n400 * 400 + n100 * 100 + n4 * 4 + n1 + 1
    IN IF n1 = 4 \/ n100 = 4 THEN y - 1 ELSE y

\* date.timetuple().tm_yday
tm_yday(n) == n - DaysBeforeYear(YearOf(n))

RECURSIVE MonthOf(_, _, _)
MonthOf(y, yday, m) ==
    IF yday <= DaysBeforeMonth(y, m) + DaysInMonth(y, m) THEN m ELSE MonthOf(y, yday, m + 1)

\* the 8-digit YYYYMMDD form of an ordinal (how a caller writes a date argument)
yyyymmdd(n) ==
    LET y == YearOf(n)
        m == MonthOf(y, tm_yday(n), 1)
    IN y * 10000 + m * 100 + (tm_yday(n) - DaysBeforeMonth(y, m))

\* pd.date_range(start=s, end=e): every day from s to e, both included, ascending
date_range(s, e) ==
    LET lo == toordinal(strptime(s))
        hi == toordinal(strptime(e))
    IN [i \in 1..(IF hi >= lo THEN hi - lo + 1 ELSE 0) |-> lo + i - 1]

\* ---------------------------------------------------------------------------
\* Text: format specifications of the f-strings
\* ---------------------------------------------------------------------------
Digits == <<"0", "1", "2", "3", "4", "5", "6", "7", "8", "9">>

Digit(d) == Digits[d + 1]

Abs(x) == IF x < 0 THEN -x ELSE x

RECURSIVE DecimalDigits(_)
DecimalDigits(n) ==
    IF n < 10 THEN <<Digit(n)>> ELSE DecimalDigits(n \div 10) \o <<Digit(n % 10)>>

RECURSIVE Spaces(_)
Spaces(k) == IF k <= 0 THEN <<>> ELSE <<" ">> \o Spaces(k - 1)

\* right-justify within a minimum width; a longer text is not cut
RightJustify(s, width) == Spaces(width - Len(s)) \o s

RECURSIVE ZeroPad(_, _)
ZeroPad(s, width) == IF Len(s) >= width THEN s ELSE ZeroPad(<<"0">> \o s, width)

\* nearest integer to num/den (den > 0); a tie goes to the even neighbour when
\* the quotient is an exact binary float, which is the case for
\* a value in tenths rounded to a whole number
RoundHalfEven(num, den) ==
    LET a == Abs(num)
        q == a \div den
        r == a % den
    IN IF 2 * r < den THEN q
       ELSE IF 2 * r > den THEN q + 1
       ELSE IF q % 2 = 0 THEN q ELSE q + 1

\* nearest integer to num/den when the quotient was computed in floating point:
\* on a decimal tie the binary value lies on either side
RoundFloat(num, den, tieUp) ==
    LET a == Abs(num)
        q == a \div den
        r == a % den
    IN IF 2 * r < den THEN q
       ELSE IF 2 * r > den THEN q + 1
       ELSE IF tieUp THEN q + 1 ELSE q

\* "-" for a negative value, also one that rounds to zero
Sign(neg) == IF neg THEN <<"-">> ELSE <<>>

\* f"{x:W.1f}" for x = tenths/10
Format1f(x, width) ==
    IF x.nan THEN RightJustify(<<"n", "a", "n">>, width)
    ELSE RightJustify(Sign(x.tenths < 0) \o DecimalDigits(Abs(x.tenths) \div 10)
                      \o <<".">> \o <<Digit(Abs(x.tenths) % 10)>>, width)

\* f"{x:W.0f}" for x = tenths/10
Format0f(x, width) ==
    IF x.nan THEN RightJustify(<<"n", "a", "n">>, width)
    ELSE RightJustify(Sign(x.tenths < 0) \o DecimalDigits(RoundHalfEven(x.tenths, 10)), width)

\* f"{x:W.3f}" for x = thousandths/1000
Format3f(thousandths, width) ==
    RightJustify(Sign(thousandths < 0) \o DecimalDigits(Abs(thousandths) \div 1000)
                 \o <<".">> \o ZeroPad(DecimalDigits(Abs(thousandths) % 1000), 3), width)

\* f"{x:W.1f}" for a float statistic x = (num/den)/10
FormatStat(stat, width, tieUp) ==
    IF stat.nan THEN RightJustify(<<"n", "a", "n">>, width)
    ELSE RightJustify(Sign(stat.num < 0)
                      \o DecimalDigits(RoundFloat(stat.num, stat.den, tieUp) \div 10)
                      \o <<".">> \o <<Digit(RoundFloat(stat.num, stat.den, tieUp) % 10)>>, width)

\* ---------------------------------------------------------------------------
\* State
\* ---------------------------------------------------------------------------
VARIABLES
    \* the active call of get_daily_nasa_power_data
    fpc,            \* "idle", "called", "request", "waiting", "returned", "raised"
    start_date,     \* its arguments
    end_date,
    requests,       \* HTTP GETs issued by this call
    result,         \* what the call returned
    diagnostic,     \* what the call printed
    served,         \* the dates in the response of the service
    \* the last call of save_wth_file
    df,             \* its argument
    found,          \* the lines of the file that open() found, 0 when it made it
    tavg,
    amp,
    header,
    data_lines,
    reported,       \* the path it printed
    \* the file system
    folders,        \* the folders that exist
    files,          \* path -> text of the files that exist
    \* the caller
    mpc,            \* its position
    period1_data,
    period2_data,
    daily_data,
    raised,         \* the exception that ended the caller, "" when none
    writes          \* files written by the caller so far

fetchVars == <<fpc, start_date, end_date, requests, result, diagnostic, served>>

saveVars == <<df, found, tavg, amp, header, data_lines, reported>>

fsVars == <<folders, files>>

callerVars == <<mpc, period1_data, period2_data, daily_data, raised, writes>>

vars == <<fetchVars, saveVars, fsVars, callerVars>>

\* ---------------------------------------------------------------------------
\* The remote service
\* ---------------------------------------------------------------------------
\* the value the service holds for a parameter on a date
Weather(p, d) ==
    LET t2m == 200 + 5 * (d % 7)
    IN CASE p = "T2M" -> Float(t2m)
         [] p = "T2M_MAX" -> Float(t2m + 50 + 10 * (d % 3))
         [] p = "T2M_MIN" -> Float(t2m - 60 - 5 * (d % 2))
         [] p = "PRECTOTCORR" -> Float(25 * (d % 4))
         [] p = "ALLSKY_SFC_SW_DWN" -> Float(150 + 11 * (d % 5))
         [] p = "RH2M" -> Float(600 + 25 * (d % 8))
         [] p = "WS2M" -> Float(10 + 3 * (d % 6))

\* data['properties']['parameter'] of a response, as the dates that the mapping
\* of each parameter holds (the value at a date is Weather): the dates `dates`,
\* the parameters of `thin` lacking the date `hole`
Response(dates, thin, hole) ==
    [p \in ParameterSet |-> IF p \in thin THEN dates \ {hole} ELSE dates]

\* the responses the service may give to a request for [lo, hi]: the whole
\* range; the range without its first MaxDropped days, with the day after the
\* range and with two parameters lacking the last day; nothing at all
Responses(lo, hi) ==
    { Response(lo..hi, {}, hi),
      Response(((lo + MaxDropped)..hi) \cup {hi + 1}, {"T2M_MAX", "RH2M"}, hi),
      Response({}, {}, hi) }

\* ---------------------------------------------------------------------------
\* get_daily_nasa_power_data
\* ---------------------------------------------------------------------------
\* (end_dt - start_dt).days
days(start_dt, end_dt) == toordinal(end_dt) - toordinal(start_dt)

max_period == 365 * 30

\* variant: a period of exactly 30 years is rejected too
PeriodTooLong_inclusive(start_dt, end_dt) == days(start_dt, end_dt) >= max_period

PeriodTooLong(start_dt, end_dt) == days(start_dt, end_dt) > max_period

\* pd.DataFrame(daily_data) with its index converted by pd.to_datetime: the
\* index is the union of the dates of the parameters, a cell a parameter lacks
\* is NaN
FrameIndex(daily) == UNION {daily[p] : p \in ParameterSet}

Cell(daily, p, d) == IF d \in daily[p] THEN Weather(p, d) ELSE NaN

AllNaN == [p \in ParameterSet |-> NaN]

\* variant: only the labels that the frame holds are kept
reindex_inner(daily, full_range) ==
    LET Held(d) == d \in FrameIndex(daily)
        kept == SelectSeq(full_range, Held)
    IN DataFrame(kept, [i \in 1..Len(kept) |-> [p \in ParameterSet |-> Cell(daily, p, kept[i])]])

\* df.reindex(full_range): one row per label of full_range, in its order; a
\* label the frame lacks gets a row of NaN, a label full_range lacks is dropped
reindex(daily, full_range) ==
    LET index == FrameIndex(daily)
    IN DataFrame(full_range,
                 [i \in 1..Len(full_range) |->
                    IF full_range[i] \in index
                    THEN [p \in ParameterSet |-> Cell(daily, p, full_range[i])]
                    ELSE AllNaN])

\* a caller enters the function
call_fetch(s, e) ==
    /\ fpc \in {"idle", "returned", "raised"}
    /\ fpc' = "called"
    /\ start_date' = s
    /\ end_date' = e
    /\ requests' = 0
    /\ result' = Unbound
    /\ diagnostic' = ""
    /\ served' = {}

\* lines 25-31: parse the dates, reject a period of more than 30 years
fetch_validate ==
    /\ fpc = "called"
    /\ fpc' = IF PeriodTooLong(strptime(start_date), strptime(end_date))
              THEN "raised" ELSE "request"
    /\ UNCHANGED <<start_date, end_date, requests, result, diagnostic, served>>
    /\ UNCHANGED <<saveVars, fsVars, callerVars>>

\* lines 34-46: requests.get
fetch_request ==
    /\ fpc = "request"
    /\ requests' = requests + 1
    /\ fpc' = "waiting"
    /\ UNCHANGED <<start_date, end_date, result, diagnostic, served>>
    /\ UNCHANGED <<saveVars, fsVars, callerVars>>

RequestExceptions == {"ConnectionError", "Timeout", "HTTPError"}

\* variant: a failed request is issued once more before the call gives up
fetch_fail_retry ==
    /\ fpc = "waiting"
    /\ \E e \in RequestExceptions : diagnostic' = e
    /\ IF requests < 2
       THEN fpc' = "request" /\ UNCHANGED result
       ELSE fpc' = "returned" /\ result' = None
    /\ UNCHANGED <<start_date, end_date, requests, served>>
    /\ UNCHANGED <<saveVars, fsVars, callerVars>>

\* lines 46-47, 62-64: the request fails or the status is an error
fetch_fail ==
    /\ fpc = "waiting"
    /\ \E e \in RequestExceptions : diagnostic' = e
    /\ result' = None
    /\ fpc' = "returned"
    /\ UNCHANGED <<start_date, end_date, requests, served>>
    /\ UNCHANGED <<saveVars, fsVars, callerVars>>

\* lines 49-60: the response arrives and becomes the returned frame
fetch_success ==
    /\ fpc = "waiting"
    /\ \E daily \in Responses(toordinal(strptime(start_date)), toordinal(strptime(end_date))) :
          /\ served' = FrameIndex(daily)
          /\ result' = reindex(daily, date_range(start_date, end_date))
    /\ fpc' = "returned"
    /\ UNCHANGED <<start_date, end_date, requests, diagnostic>>
    /\ UNCHANGED <<saveVars, fsVars, callerVars>>

\* ---------------------------------------------------------------------------
\* save_wth_file
\* ---------------------------------------------------------------------------
\* os.makedirs(name, exist_ok): the folders afterwards, or the failure
makedirs(existing, name, exist_ok) ==
    IF name \in existing /\ ~exist_ok
    THEN [error |-> "FileExistsError", folders |-> existing]
    ELSE [error |-> "", folders |-> existing \cup {name}]

required_columns ==
    [p \in ParameterSet |->
        CASE p = "T2M" -> "TAVG"
          [] p = "T2M_MAX" -> "TMAX"
          [] p = "T2M_MIN" -> "TMIN"
          [] p = "PRECTOTCORR" -> "RAIN"
          [] p = "ALLSKY_SFC_SW_DWN" -> "SRAD"
          [] p = "RH2M" -> "RHUM"
          [] p = "WS2M" -> "WIND"]

\* df.rename(columns=mapping)
rename(frame, mapping) ==
    DataFrame(frame.index,
              [i \in 1..Len(frame.rows) |->
                 [c \in {mapping[p] : p \in DOMAIN frame.rows[i]} |->
                    frame.rows[i][CHOOSE p \in DOMAIN frame.rows[i] : mapping[p] = c]]])

Sentinel == Float(-990)

\* variant: the sentinel stands in for a missing entry of the column
Column_filled(frame, c) ==
    [i \in 1..Len(frame.rows) |->
        IF frame.rows[i][c].nan THEN Sentinel ELSE frame.rows[i][c]]

\* frame[c]
Column(frame, c) == [i \in 1..Len(frame.rows) |-> frame.rows[i][c]]

\* the entries of a column that an aggregation takes in: NaN is skipped
Taken(col) == {i \in 1..Len(col) : ~col[i].nan}

RECURSIVE SumOver(_, _, _, _)
SumOver(col, taken, lo, hi) ==
    IF lo > hi THEN 0
    ELSE IF lo = hi THEN (IF lo \in taken THEN col[lo].tenths ELSE 0)
    ELSE SumOver(col, taken, lo, (lo + hi) \div 2)
         + SumOver(col, taken, ((lo + hi) \div 2) + 1, hi)

\* Series.mean()
mean(col) ==
    LET taken == Taken(col)
    IN IF taken = {} THEN NaNStat
       ELSE Stat(SumOver(col, taken, 1, Len(col)), Cardinality(taken))

\* Series.max()
max(col) ==
    LET values == {col[i].tenths : i \in Taken(col)}
    IN IF values = {} THEN NaN
       ELSE Float(CHOOSE m \in values : \A v \in values : v <= m)

\* Series.min()
min(col) ==
    LET values == {col[i].tenths : i \in Taken(col)}
    IN IF values = {} THEN NaN
       ELSE Float(CHOOSE m \in values : \A v \in values : m <= v)

\* (hi - lo) / 2
HalfRange(hi, lo) == IF hi.nan \/ lo.nan THEN NaNStat ELSE Stat(hi.tenths - lo.tenths, 2)

\* the four lines of the header, each ended by a newline
Header(site_code, latitude, longitude, elevation, tav, am, tieT, tieA) ==
    << <<"*", "W", "E", "A", "T", "H", "E", "R", " ", "D", "A", "T", "A", " ", ":", " ">>
         \o site_code,
       <<"@", " ", "I", "N", "S", "I", " ", " ", " ", " ", " ", " ", "L", "A", "T",
         " ", " ", " ", " ", " ", "L", "O", "N", "G", " ", " ", "E", "L", "E", "V",
         " ", " ", " ", "T", "A", "V", " ", " ", " ", "A", "M", "P", " ", "R", "E",
         "F", "H", "T", " ", "W", "N", "D", "H", "T">>,
       <<" ", " ">> \o site_code \o <<" ", " ">> \o Format3f(latitude, 6) \o <<" ">>
         \o Format3f(longitude, 6) \o <<" ">> \o Format0f(Float(10 * elevation), 5)
         \o <<" ", " ">> \o FormatStat(tav, 4, tieT) \o <<" ", " ">>
         \o FormatStat(am, 4, tieA)
         \o <<" ", " ", " ", " ", " ", "2", " ", " ", " ", " ", " ", "2">>,
       <<"@", "D", "A", "T", "E", " ", " ", "S", "R", "A", "D", " ", " ", "T", "M",
         "A", "X", " ", " ", "T", "M", "I", "N", " ", " ", "R", "A", "I", "N", " ",
         " ", "R", "H", "U", "M", " ", " ", "W", "I", "N", "D">>,
       <<>> >>

\* date.strftime('%y')
strftime_y(date) == ZeroPad(DecimalDigits(YearOf(date) % 100), 2)

\* variant: the day of the year is not padded
dssat_date_unpadded(date) == strftime_y(date) \o DecimalDigits(tm_yday(date))

\* f"{short_year}{julian_day:03d}"
dssat_date(date) == strftime_y(date) \o ZeroPad(DecimalDigits(tm_yday(date)), 3)

\* row.get(key, default): the default stands in for a key the row lacks
RowGet(row, key, default) == IF key \in DOMAIN row THEN row[key] ELSE default

\* lines 97-109: the line of one day
DataLine(date, row) ==
    dssat_date(date)
      \o <<" ">> \o Format1f(RowGet(row, "SRAD", Sentinel), 5)
      \o <<" ">> \o Format1f(RowGet(row, "TMAX", Sentinel), 5)
      \o <<" ">> \o Format1f(RowGet(row, "TMIN", Sentinel), 5)
      \o <<" ">> \o Format1f(RowGet(row, "RAIN", Sentinel), 5)
      \o <<" ">> \o Format0f(RowGet(row, "RHUM", Sentinel), 5)
      \o <<" ">> \o Format1f(RowGet(row, "WIND", Sentinel), 5)

\* '\n'.join(lines), as the sequence of its lines
join(lines) == IF lines = <<>> THEN << <<>> >> ELSE lines

\* os.path.join(folder, name)
path_join(folder, name) == folder \o <<"/">> \o name

EmptyText == << <<>> >>

\* variant: open(path, 'a'), an existing file keeps its text
open_a(fs, path) ==
    [q \in (DOMAIN fs) \cup {path} |-> IF q \in DOMAIN fs THEN fs[q] ELSE EmptyText]

\* open(path, 'w'): the file is created, or cut to nothing when it exists
open_w(fs, path) ==
    [q \in (DOMAIN fs) \cup {path} |-> IF q = path THEN EmptyText ELSE fs[q]]

\* f.write(t): the first line of t continues the last line of the file
write(text, t) ==
    SubSeq(text, 1, Len(text) - 1) \o <<text[Len(text)] \o t[1]>> \o Tail(t)

\* the ways a floating-point quotient may fall when rounded to one decimal
Ties(stat) ==
    IF ~stat.nan /\ 2 * (Abs(stat.num) % stat.den) = stat.den THEN BOOLEAN ELSE {FALSE}

\* the whole of save_wth_file; tieT and tieA are how the floating-point
\* quotients of TAV and AMP fall when they are decimal ties
save_wth_file(frame, site_code, latitude, longitude, elevation, output_folder) ==
    LET made == makedirs(folders, output_folder, TRUE)
        renamed == rename(frame, required_columns)
        tav == mean(Column(renamed, "TAVG"))
        am == HalfRange(max(Column(renamed, "TMAX")), min(Column(renamed, "TMIN")))
        lines == [i \in 1..Len(renamed.rows) |-> DataLine(renamed.index[i], renamed.rows[i])]
        output_file == path_join(output_folder,
                                 <<"W">> \o site_code \o <<"0", "1", ".", "W", "T", "H">>)
        opened == open_w(files, output_file)
    IN IF made.error # ""
       THEN /\ raised' = made.error
            /\ UNCHANGED <<saveVars, fsVars>>
       ELSE /\ raised' = ""
            /\ folders' = made.folders
            /\ df' = frame
            /\ found' = IF output_file \in DOMAIN files THEN Len(files[output_file]) ELSE 0
            /\ tavg' = tav
            /\ amp' = am
            /\ \E tieT \in Ties(tav), tieA \in Ties(am) :
                  header' = Header(site_code, latitude, longitude, elevation,
                                   tav, am, tieT, tieA)
            /\ data_lines' = lines
            /\ files' = [opened EXCEPT ![output_file] = write(write(@, header'), join(lines))]
            /\ reported' = output_file

\* variant: the frames are taken from the last to the first
RECURSIVE pd_concat_reversed(_)
pd_concat_reversed(objs) ==
    IF objs = <<>> THEN DataFrame(<<>>, <<>>)
    ELSE IF Head(objs).kind = "None" THEN pd_concat_reversed(Tail(objs))
    ELSE DataFrame(pd_concat_reversed(Tail(objs)).index \o Head(objs).index,
                   pd_concat_reversed(Tail(objs)).rows \o Head(objs).rows)

\* pd.concat(objs): the frames one after the other, a None among them left out
RECURSIVE pd_concat(_)
pd_concat(objs) ==
    IF objs = <<>> THEN DataFrame(<<>>, <<>>)
    ELSE IF Head(objs).kind = "None" THEN pd_concat(Tail(objs))
    ELSE DataFrame(Head(objs).index \o pd_concat(Tail(objs)).index,
                   Head(objs).rows \o pd_concat(Tail(objs)).rows)

\* ---------------------------------------------------------------------------
\* Initial state
\* ---------------------------------------------------------------------------
output == <<".", "/", "o", "u", "t", "p", "u", "t">>

NoFiles == [q \in {} |-> EmptyText]

Init ==
    /\ fpc = "idle"
    /\ start_date = 0
    /\ end_date = 0
    /\ requests = 0
    /\ result = Unbound
    /\ diagnostic = ""
    /\ served = {}
    /\ df = Unbound
    /\ found = 0
    /\ tavg = NaNStat
    /\ amp = NaNStat
    /\ header = <<>>
    /\ data_lines = <<>>
    /\ reported = <<>>
    /\ folders = {}
    /\ files = NoFiles
    /\ mpc = "start"
    /\ period1_data = Unbound
    /\ period2_data = Unbound
    /\ daily_data = Unbound
    /\ raised = ""
    /\ writes = 0

\* ---------------------------------------------------------------------------
\* main
\* ---------------------------------------------------------------------------
latitude == -13540

longitude == -58820

site_code == <<"B", "R", "M", "T">>

elevation == 370

\* line 135: the first period is requested
main_fetch1 ==
    /\ mpc = "start"
    /\ call_fetch(19940101, 20141231)
    /\ mpc' = "fetch1"
    /\ UNCHANGED <<period1_data, period2_data, daily_data, raised, writes>>
    /\ UNCHANGED <<saveVars, fsVars>>

\* line 135: the call ends; its result is bound, or its exception ends main
main_assign1 ==
    /\ mpc = "fetch1"
    /\ fpc \in {"returned", "raised"}
    /\ IF fpc = "raised"
       THEN /\ raised' = "ValueError"
            /\ mpc' = "crashed"
            /\ UNCHANGED period1_data
       ELSE /\ period1_data' = result
            /\ mpc' = "line136"
            /\ UNCHANGED raised
    /\ UNCHANGED <<period2_data, daily_data, writes>>
    /\ UNCHANGED <<fetchVars, saveVars, fsVars>>

\* line 136: the second period is requested
main_fetch2 ==
    /\ mpc = "line136"
    /\ call_fetch(20150101, 20241231)
    /\ mpc' = "fetch2"
    /\ UNCHANGED <<period1_data, period2_data, daily_data, raised, writes>>
    /\ UNCHANGED <<saveVars, fsVars>>

main_assign2 ==
    /\ mpc = "fetch2"
    /\ fpc \in {"returned", "raised"}
    /\ IF fpc = "raised"
       THEN /\ raised' = "ValueError"
            /\ mpc' = "crashed"
            /\ UNCHANGED period2_data
       ELSE /\ period2_data' = result
            /\ mpc' = "line139"
            /\ UNCHANGED raised
    /\ UNCHANGED <<period1_data, daily_data, writes>>
    /\ UNCHANGED <<fetchVars, saveVars, fsVars>>

\* variant: one fetched period is enough
BothFetched_either(p1, p2) == p1.kind # "None" \/ p2.kind # "None"

\* line 139: the condition under which the periods are combined
BothFetched(p1, p2) == p1.kind # "None" /\ p2.kind # "None"

\* lines 139-140
main_concat ==
    /\ mpc = "line139"
    /\ daily_data' = IF BothFetched(period1_data, period2_data)
                     THEN pd_concat(<<period1_data, period2_data>>)
                     ELSE daily_data
    /\ mpc' = "line142"
    /\ UNCHANGED <<period1_data, period2_data, raised, writes>>
    /\ UNCHANGED <<fetchVars, saveVars, fsVars>>

\* lines 142-147: reading a name that was never bound raises UnboundLocalError
main_save ==
    /\ mpc = "line142"
    /\ IF daily_data.kind = "Unbound"
       THEN /\ raised' = "UnboundLocalError"
            /\ mpc' = "crashed"
            /\ UNCHANGED <<writes, saveVars, fsVars>>
       ELSE IF daily_data.kind = "None"
       THEN /\ mpc' = "end"
            /\ UNCHANGED <<raised, writes, saveVars, fsVars>>
       ELSE /\ save_wth_file(daily_data, site_code, latitude, longitude, elevation, output)
            /\ mpc' = IF raised' = "" THEN "end" ELSE "crashed"
            /\ writes' = IF raised' = "" THEN writes + 1 ELSE writes
    /\ UNCHANGED <<period1_data, period2_data, daily_data>>
    /\ UNCHANGED fetchVars

NextMain ==
    \/ main_fetch1
    \/ fetch_validate
    \/ fetch_request
    \/ fetch_fail
    \/ fetch_success
    \/ main_assign1
    \/ main_fetch2
    \/ main_assign2
    \/ main_concat
    \/ main_save

SpecMain == Init /\ [][NextMain]_vars

\* ---------------------------------------------------------------------------
\* A caller that only fetches: any start, short periods and periods around
\* the limit
\* ---------------------------------------------------------------------------
ProbeStarts == {19940101, 19991231, 20000229}

ProbeSpans == (0..MaxSpan) \cup {max_period - 1, max_period, max_period + 1}

after(s, n) == yyyymmdd(toordinal(strptime(s)) + n)

probe_call ==
    /\ \E s \in ProbeStarts, n \in ProbeSpans : call_fetch(s, after(s, n))
    /\ UNCHANGED <<saveVars, fsVars, callerVars>>

NextFetch ==
    \/ probe_call
    \/ fetch_validate
    \/ fetch_request
    \/ fetch_fail
    \/ fetch_success

SpecFetch == Init /\ [][NextFetch]_vars

\* ---------------------------------------------------------------------------
\* A caller that checks every result: it fetches two adjacent short periods,
\* combines them in order, and writes up to MaxWrites times a frame it holds
\* ---------------------------------------------------------------------------
TestStarts == {19991231, 20000228, 20001230, 20231230}

test_fetch1 ==
    /\ mpc = "start"
    /\ \E s \in TestStarts, n \in 0..MaxSpan : call_fetch(s, after(s, n))
    /\ mpc' = "fetch1"
    /\ UNCHANGED <<period1_data, period2_data, daily_data, raised, writes>>
    /\ UNCHANGED <<saveVars, fsVars>>

\* a None result is not used: the caller stops
test_assign1 ==
    /\ mpc = "fetch1"
    /\ fpc = "returned"
    /\ period1_data' = result
    /\ mpc' = IF result.kind = "None" THEN "stopped" ELSE "line136"
    /\ UNCHANGED <<period2_data, daily_data, raised, writes>>
    /\ UNCHANGED <<fetchVars, saveVars, fsVars>>

\* the second period starts the day after the first ends
test_fetch2 ==
    /\ mpc = "line136"
    /\ \E n \in 0..MaxSpan : call_fetch(after(end_date, 1), after(end_date, 1 + n))
    /\ mpc' = "fetch2"
    /\ UNCHANGED <<period1_data, period2_data, daily_data, raised, writes>>
    /\ UNCHANGED <<saveVars, fsVars>>

test_assign2 ==
    /\ mpc = "fetch2"
    /\ fpc = "returned"
    /\ period2_data' = result
    /\ mpc' = IF result.kind = "None" THEN "stopped" ELSE "line139"
    /\ UNCHANGED <<period1_data, daily_data, raised, writes>>
    /\ UNCHANGED <<fetchVars, saveVars, fsVars>>

test_concat ==
    /\ mpc = "line139"
    /\ daily_data' = pd_concat(<<period1_data, period2_data>>)
    /\ mpc' = "line142"
    /\ UNCHANGED <<period1_data, period2_data, raised, writes>>
    /\ UNCHANGED <<fetchVars, saveVars, fsVars>>

\* the combined frame, or one of the two periods, is written over the file
test_save ==
    /\ mpc = "line142"
    /\ writes < MaxWrites
    /\ \E frame \in {daily_data, period1_data, period2_data} :
          save_wth_file(frame, site_code, latitude, longitude, elevation, output)
    /\ mpc' = IF raised' = "" THEN "line142" ELSE "crashed"
    /\ writes' = IF raised' = "" THEN writes + 1 ELSE writes
    /\ UNCHANGED <<period1_data, period2_data, daily_data>>
    /\ UNCHANGED fetchVars

Next ==
    \/ test_fetch1
    \/ fetch_validate
    \/ fetch_request
    \/ fetch_fail
    \/ fetch_success
    \/ test_assign1
    \/ test_fetch2
    \/ test_assign2
    \/ test_concat
    \/ test_save

Spec == Init /\ [][Next]_vars

\* ---------------------------------------------------------------------------
\* Properties
\* ---------------------------------------------------------------------------
OutputFile ==
    <<".", "/", "o", "u", "t", "p", "u", "t", "/",
      "W", "B", "R", "M", "T", "0", "1", ".", "W", "T", "H">>

Written == OutputFile \in DOMAIN files

\* the lines of the written file after the four lines of the header
Body == SubSeq(files[OutputFile], 5, Len(files[OutputFile]))

Token(line) == SubSeq(line, 1, 5)

IsDigit(c) == \E d \in 0..9 : Digits[d + 1] = c

DigitValue(c) == CHOOSE d \in 0..9 : Digits[d + 1] = c

\* the parameter shown in the k-th numeric column of a line, and the columns
\* of the line it occupies
FieldParameter == <<"ALLSKY_SFC_SW_DWN", "T2M_MAX", "T2M_MIN", "PRECTOTCORR", "RH2M", "WS2M">>

Field(line, k) == SubSeq(line, 6 * k + 1, 6 * k + 5)

RequestedLo == toordinal(strptime(start_date))

RequestedHi == toordinal(strptime(end_date))

\* C1: a successful call with start <= end returns a frame whose index is the
\* inclusive range of days from start to end, ascending, each day once and none
\* left out, whatever dates the service sent; a day the service did not send
\* has its seven fields missing.
C1_IndexIsRequestedRange ==
    (fpc = "returned" /\ result.kind = "DataFrame" /\ RequestedLo <= RequestedHi) =>
        /\ Len(result.index) = RequestedHi - RequestedLo + 1
        /\ Len(result.rows) = Len(result.index)
        /\ \A i \in 1..Len(result.index) :
              /\ result.index[i] = RequestedLo + i - 1
              /\ DOMAIN result.rows[i] = ParameterSet
              /\ result.index[i] \notin served =>
                    \A p \in ParameterSet : result.rows[i][p].nan

\* C1 witness: a frame returned for a response that lacks a requested day and
\* holds a day outside the request
C1_Witness ==
    /\ fpc = "returned"
    /\ result.kind = "DataFrame"
    /\ \E d \in served : d > RequestedHi
    /\ \E i \in 1..Len(result.index) : result.index[i] \notin served

\* C2: a call for more than 10950 days ends in the validation error with no
\* HTTP request issued and nothing returned or printed; a call for exactly
\* 10950 days is not rejected.
C2_LongPeriodRejectedBeforeRequest ==
    fpc \notin {"idle", "called"} =>
        /\ RequestedHi - RequestedLo > 10950 =>
              /\ fpc = "raised"
              /\ requests = 0
              /\ result = Unbound
              /\ diagnostic = ""
        /\ RequestedHi - RequestedLo <= 10950 => fpc # "raised"

\* C2 witness: a call for 10951 days has been rejected
C2_Witness ==
    /\ fpc = "raised"
    /\ RequestedHi - RequestedLo = 10951
    /\ requests = 0

\* C3 (as claimed): in the written file every missing field of a day is shown
\* as -99 right-justified in the five columns of that field.
C3_MissingShownAsSentinel ==
    Written =>
        \A i \in 1..Len(df.rows) : \A k \in 1..6 :
            df.rows[i][FieldParameter[k]].nan =>
                Field(Body[i], k) = <<" ", " ", "-", "9", "9">>

\* C4: a failed request ends the call with None returned and a diagnostic
\* printed, not with an exception; a call issues at most one request, and a
\* call that failed issued exactly one.
C4_FailureReturnsNoneOnce ==
    /\ requests <= 1
    /\ diagnostic # "" =>
          /\ fpc = "returned"
          /\ result = None
          /\ requests = 1
          /\ diagnostic \in RequestExceptions
    /\ (fpc = "returned" /\ result = None) => diagnostic # ""

\* C4 witness: a call whose request timed out has returned None
C4_Witness ==
    /\ fpc = "returned"
    /\ result = None
    /\ diagnostic = "Timeout"
    /\ requests = 1

\* C5: when two frames fetched for adjacent periods are combined in order and
\* written, the body of the file has one line per day of the combined frame,
\* line i is the line of day i, the days ascend strictly and no date token is
\* on two lines.
C5_BodyAscendingNoDuplicate ==
    Written =>
        /\ Len(Body) = Len(df.index)
        /\ \A i \in 1..Len(Body) : Token(Body[i]) = dssat_date(df.index[i])
        /\ \A i \in 1..(Len(df.index) - 1) : df.index[i] < df.index[i + 1]
        /\ \A i, j \in 1..Len(Body) : i # j => Token(Body[i]) # Token(Body[j])

\* C5 witness: a written body that runs from the last day of 1999 into 2000
C5_Witness ==
    /\ Written
    /\ \E i \in 1..(Len(Body) - 1) :
          /\ Token(Body[i]) = <<"9", "9", "3", "6", "5">>
          /\ Token(Body[i + 1]) = <<"0", "0", "0", "0", "1">>

\* the days of the written frame that hold a value of a parameter
Present(p) == {i \in 1..Len(df.rows) : ~df.rows[i][p].nan}

RECURSIVE TotalOf(_, _)
TotalOf(p, days_) ==
    IF days_ = {} THEN 0
    ELSE LET i == CHOOSE x \in days_ : TRUE
         IN df.rows[i][p].tenths + TotalOf(p, days_ \ {i})

\* C6: TAV is the mean of the average temperatures that are present and AMP
\* is half of (the greatest maximum temperature present minus the least minimum
\* temperature present); a missing entry is no input, neither as -99 nor as
\* any other number; with nothing present the statistic is NaN.
C6_StatisticsSkipMissing ==
    Written =>
        /\ IF Present("T2M") = {} THEN tavg.nan
           ELSE /\ ~tavg.nan
                /\ tavg.num * Cardinality(Present("T2M"))
                      = TotalOf("T2M", Present("T2M")) * tavg.den
        /\ IF Present("T2M_MAX") = {} \/ Present("T2M_MIN") = {} THEN amp.nan
           ELSE /\ ~amp.nan
                /\ \E hi \in Present("T2M_MAX"), lo \in Present("T2M_MIN") :
                      /\ \A i \in Present("T2M_MAX") :
                            df.rows[i]["T2M_MAX"].tenths <= df.rows[hi]["T2M_MAX"].tenths
                      /\ \A i \in Present("T2M_MIN") :
                            df.rows[lo]["T2M_MIN"].tenths <= df.rows[i]["T2M_MIN"].tenths
                      /\ 2 * amp.num = (df.rows[hi]["T2M_MAX"].tenths
                                          - df.rows[lo]["T2M_MIN"].tenths) * amp.den

\* C6 witness: a written frame with a day that lacks every field, a day that
\* lacks only some, and a day that lacks none
C6_Witness ==
    /\ Written
    /\ \E i, j, k \in 1..Len(df.rows) :
          /\ df.rows[i]["T2M"].nan
          /\ ~df.rows[j]["T2M"].nan /\ df.rows[j]["T2M_MAX"].nan
          /\ ~df.rows[k]["T2M"].nan /\ ~df.rows[k]["T2M_MAX"].nan

\* C7 (as claimed): main never ends in an unhandled exception, whatever the
\* outcomes of its two fetches, and writes no file when both fail.
C7_MainNeverCrashes ==
    /\ raised = ""
    /\ mpc # "crashed"
    /\ (period1_data = None /\ period2_data = None) => ~Written

\* C8: no write fails; after a write the folder exists and the file
\* W<site_code>01.WTH is the only file and holds the four lines of the header
\* and the lines of the days of that write, nothing of an earlier file.
C8_LastWriteOnly ==
    /\ raised = ""
    /\ writes = 0 => files = NoFiles
    /\ writes > 0 =>
          /\ output \in folders
          /\ DOMAIN files = {OutputFile}
          /\ reported = OutputFile
          /\ Len(header) = 5
          /\ files[OutputFile] = SubSeq(header, 1, 4) \o data_lines
          /\ Len(files[OutputFile]) = 4 + Len(df.index)

\* C8 witness: a second write, with fewer days than the file it found
C8_Witness ==
    /\ writes = 2
    /\ found > Len(files[OutputFile])

\* the year and the day of the year that a date token reads as
TokenYear(tok) == 10 * DigitValue(tok[1]) + DigitValue(tok[2])

TokenDay(tok) == 100 * DigitValue(tok[3]) + 10 * DigitValue(tok[4]) + DigitValue(tok[5])

Encode(yy, doy) ==
    <<Digit(yy \div 10), Digit(yy % 10),
      Digit(doy \div 100), Digit((doy \div 10) % 10), Digit(doy % 10)>>

\* C9: the line of every day starts with five digits followed by a space; the
\* first two are the year modulo 100 and the last three the day of the year,
\* counted from 1 on January 1st up to 365 or 366; reading the token as (year,
\* day) and writing it again gives the same token.
C9_DateTokenRoundTrip ==
    Written =>
        \A i \in 1..Len(Body) :
            LET tok == Token(Body[i])
            IN /\ Len(Body[i]) > 5
               /\ \A c \in 1..5 : IsDigit(tok[c])
               /\ Body[i][6] = " "
               /\ \E y \in 1990..2030 :
                     /\ y % 100 = TokenYear(tok)
                     /\ TokenDay(tok) \in 1..(IF IsLeap(y) THEN 366 ELSE 365)
                     /\ toordinal([year |-> y, month |-> 1, day |-> 1]) + TokenDay(tok) - 1
                           = df.index[i]
               /\ Encode(TokenYear(tok), TokenDay(tok)) = tok

\* C9 witness: a written line for the 366th day of a leap year
C9_Witness ==
    /\ Written
    /\ \E i \in 1..Len(Body) : Token(Body[i]) = <<"0", "0", "3", "6", "6">>

\* C10: in main, once a fetch has returned None, nothing is combined, the
\* writer is not called and no file exists.
C10_NoneNeverWritten ==
    (period1_data = None \/ period2_data = None) =>
        /\ daily_data = Unbound
        /\ df = Unbound
        /\ writes = 0
        /\ ~Written
        /\ files = NoFiles

\* C10 witness: main got the first period, not the second, and went past the
\* line that combines them
C10_Witness ==
    /\ period1_data.kind = "DataFrame"
    /\ period2_data = None
    /\ mpc \in {"line142", "crashed", "end"}

====
